---- MODULE Spec2Model ----
(***************************************************************************)
(* Algorithm Visual Playground: the step generators (sorting, grid         *)
(* traversal, pathfinding, tree recursion), the ordering containers and    *)
(* the AnimationController playback engine.                                *)
(*                                                                         *)
(* JavaScript arrays are modelled as TLA+ sequences.  Every index that is  *)
(* written into a step record keeps the 0-based value the code computes;   *)
(* At and SetAt translate a 0-based index to the sequence position.        *)
(* The `description` strings of the step records are presentation text and *)
(* are not modelled.                                                       *)
(***************************************************************************)
EXTENDS Integers, Sequences, FiniteSets, TLC

VARIABLES
    arr,          \* sorting: the caller's array handed to the generator
    sortAlg,      \* sorting: which generator has been called ("none" before)
    sortSteps,    \* sorting: the step sequence the generator returned
    grid,         \* traversal: [rows, cols, start, walls] handed to bfs/dfs
    bfsSteps,     \* traversal: the step sequence bfs returned (<<>> before)
    dfsSteps,     \* traversal: the step sequence dfs returned (<<>> before)
    pqValues,     \* PriorityQueue.values
    pqCount,      \* number of enqueue calls so far; the k-th call enqueues
                  \* the element k, so an element names its insertion order
    pqLog,        \* what the dequeue calls returned, in call order
    pgrid,        \* pathfinding: [rows, cols, start, end, walls]
    dijkstraSteps,\* pathfinding: the steps dijkstra returned (<<>> before)
    aStarSteps,   \* pathfinding: the steps aStar returned (<<>> before)
    tree,         \* recursion: [root, nodes]; nodes maps a node reference
                  \* to the object { id, value, left, right }
    treeAlg,      \* recursion: which traversal has been called
    treeSteps,    \* recursion: the step sequence the traversal returned
    loadedSteps,      \* AnimationController.steps
    currentStepIndex, \* AnimationController.currentStepIndex
    isPlaying,        \* AnimationController.isPlaying
    isPaused,         \* AnimationController.isPaused
    loops,            \* where each running play() call is suspended:
                      \* "stepDelay" (line 353), "pauseDelay" (line 344),
                      \* "idle" for a slot no running call occupies
    notified,         \* the indices the last handler or wake-up passed to
                      \* onStepChange, in call order
    lastOp,           \* the last method called, "wake" for a timer wake-up
    btnPlayDisabled,  \* UIController.elements.btnPlay.disabled
    btnPauseDisabled, \* UIController.elements.btnPause.disabled
    btnStepDisabled,  \* UIController.elements.btnStep.disabled
    raised            \* every call of onStepChange since loadSteps, in call
                      \* order; recorded for a single run of play() only

sortVars == <<arr, sortAlg, sortSteps>>

graphVars == <<grid, bfsSteps, dfsSteps>>

pqVars == <<pqValues, pqCount, pqLog>>

pathVars == <<pgrid, dijkstraSteps, aStarSteps>>

treeVars == <<tree, treeAlg, treeSteps>>

playVars == <<loadedSteps, currentStepIndex, isPlaying, isPaused, loops,
              notified, lastOp>>

uiVars == <<btnPlayDisabled, btnPauseDisabled, btnStepDisabled>>

runVars == <<raised>>

vars == <<arr, sortAlg, sortSteps, grid, bfsSteps, dfsSteps,
          pqValues, pqCount, pqLog, pgrid, dijkstraSteps, aStarSteps,
          tree, treeAlg, treeSteps,
          loadedSteps, currentStepIndex, isPlaying, isPaused, loops,
          notified, lastOp,
          btnPlayDisabled, btnPauseDisabled, btnStepDisabled, raised>>

\* ---------------------------------------------------------------- bounds
MaxLen == 4       \* longest input array
MaxVal == 3       \* array values are drawn from 1..MaxVal
MaxRows == 3      \* traversal: largest grid height
MaxCols == 2      \* traversal: largest grid width
MaxWalls == 2     \* traversal: largest number of wall cells
MaxPathRows == 3  \* pathfinding: largest grid height
MaxPathCols == 2  \* pathfinding: largest grid width
MaxPathWalls == 2 \* pathfinding: largest number of wall cells
MaxEnq == 4       \* enqueue calls made on the priority queue
MaxDeq == 4       \* dequeue calls made on the priority queue
MaxPrio == 5      \* priorities are drawn from 1..MaxPrio
MaxNodes == 4     \* largest number of tree nodes
MaxTreeVal == 2   \* node values are drawn from 1..MaxTreeVal
MaxSteps == 3     \* longest step sequence handed to loadSteps
MaxLoops == 2     \* play() calls that may be suspended at the same time
MaxCfg == 2       \* largest dimension and coordinate of a free configuration
MaxSide == 4      \* pathfinding with walls near start and end: largest side
MaxNearWalls == 3 \* pathfinding with walls near start and end: most walls
MaxRunSteps == 4  \* single run of play(): longest loaded step sequence
MaxPayload == 2   \* single run of play(): number of different steps

\* ------------------------------------------------------- array primitives
At(a, i) == a[i + 1]

SetAt(a, i, v) == [a EXCEPT ![i + 1] = v]

\* Array.from({ length: len }, (_, idx) => f(idx)) with f(idx) = from - idx
ArrayFromDown(len, from) == [k \in 1..len |-> from - (k - 1)]

\* Array.from({ length: len }, (_, idx) => idx)
ArrayFromUp(len) == [k \in 1..len |-> k - 1]

\* array.slice(from, to): elements from..to-1 (0-based)
slice(a, from, to) == [k \in 1..(to - from) |-> a[from + k]]

Range(s) == {s[k] : k \in DOMAIN s}

Last(s) == s[Len(s)]

swap_lost(a, i, j) == SetAt(a, i, At(a, j))

swap(a, i, j) == SetAt(SetAt(a, i, At(a, j)), j, At(a, i))

\* ------------------------------------------------------------ bubbleSort
\* the inner loop without `swapped = true` after a swap
RECURSIVE BubbleInner_noFlag(_, _, _, _, _, _)
BubbleInner_noFlag(array, n, i, j, steps, swapped) ==
    IF j < n - i - 1
    THEN LET s1 == Append(steps, [type |-> "compare", array |-> array,
                                  indices |-> <<j, j + 1>>,
                                  sorted |-> ArrayFromDown(i, n - 1)])
         IN  IF At(array, j) > At(array, j + 1)
             THEN LET a2 == swap(array, j, j + 1)
                      s2 == Append(s1, [type |-> "swap", array |-> a2,
                                        indices |-> <<j, j + 1>>,
                                        sorted |-> ArrayFromDown(i, n - 1)])
                  IN  BubbleInner_noFlag(a2, n, i, j + 1, s2, swapped)
             ELSE BubbleInner_noFlag(array, n, i, j + 1, s1, swapped)
    ELSE [array |-> array, steps |-> steps, swapped |-> swapped]

RECURSIVE BubbleInner(_, _, _, _, _, _)
BubbleInner(array, n, i, j, steps, swapped) ==
    IF j < n - i - 1
    THEN LET s1 == Append(steps, [type |-> "compare", array |-> array,
                                  indices |-> <<j, j + 1>>,
                                  sorted |-> ArrayFromDown(i, n - 1)])
         IN  IF At(array, j) > At(array, j + 1)
             THEN LET a2 == swap(array, j, j + 1)
                      s2 == Append(s1, [type |-> "swap", array |-> a2,
                                        indices |-> <<j, j + 1>>,
                                        sorted |-> ArrayFromDown(i, n - 1)])
                  IN  BubbleInner(a2, n, i, j + 1, s2, TRUE)
             ELSE BubbleInner(array, n, i, j + 1, s1, swapped)
    ELSE [array |-> array, steps |-> steps, swapped |-> swapped]

RECURSIVE BubbleOuter(_, _, _, _)
BubbleOuter(array, n, i, steps) ==
    IF i < n - 1
    THEN LET s1 == Append(steps, [type |-> "pass", array |-> array,
                                  sorted |-> ArrayFromDown(n - i, n - 1)])
             r  == BubbleInner(array, n, i, 0, s1, FALSE)
         IN  IF ~r.swapped
             THEN [array |-> r.array,
                   steps |-> Append(r.steps, [type |-> "early-exit",
                                              array |-> r.array,
                                              sorted |-> ArrayFromUp(n)])]
             ELSE BubbleOuter(r.array, n, i + 1, r.steps)
    ELSE [array |-> array, steps |-> steps]

bubbleSort(a) ==
    LET array == a
        n     == Len(array)
        s0    == <<[type |-> "init", array |-> array]>>
        r     == BubbleOuter(array, n, 0, s0)
    IN  Append(r.steps, [type |-> "complete", array |-> r.array,
                         sorted |-> ArrayFromUp(n)])

\* --------------------------------------------------------- insertionSort
RECURSIVE InsertionWhile(_, _, _, _, _)
InsertionWhile(array, key, i, j, steps) ==
    IF j >= 0 /\ At(array, j) > key
    THEN LET s1 == Append(steps, [type |-> "compare", array |-> array,
                                  indices |-> <<j, j + 1>>,
                                  sorted |-> ArrayFromUp(i)])
             a2 == SetAt(array, j + 1, At(array, j))
             s2 == Append(s1, [type |-> "shift", array |-> a2,
                               indices |-> <<j, j + 1>>,
                               sorted |-> ArrayFromUp(i)])
         IN  InsertionWhile(a2, key, i, j - 1, s2)
    ELSE [array |-> array, steps |-> steps, j |-> j]

RECURSIVE InsertionOuter(_, _, _, _)
InsertionOuter(array, n, i, steps) ==
    IF i < n
    THEN LET key == At(array, i)
             s1  == Append(steps, [type |-> "select", array |-> array,
                                   indices |-> <<i>>,
                                   sorted |-> ArrayFromUp(i)])
             r   == InsertionWhile(array, key, i, i - 1, s1)
             a2  == SetAt(r.array, r.j + 1, key)
             s2  == Append(r.steps, [type |-> "insert", array |-> a2,
                                     indices |-> <<r.j + 1>>,
                                     sorted |-> ArrayFromUp(i + 1)])
         IN  InsertionOuter(a2, n, i + 1, s2)
    ELSE [array |-> array, steps |-> steps]

insertionSort(a) ==
    LET array == a
        n     == Len(array)
        s0    == <<[type |-> "init", array |-> array]>>
        r     == InsertionOuter(array, n, 1, s0)
    IN  Append(r.steps, [type |-> "complete", array |-> r.array,
                         sorted |-> ArrayFromUp(n)])

\* ------------------------------------------------------------- mergeSort
\* st = [array, steps]: the closure variables `array` and `steps`
RECURSIVE MergeCompare(_, _, _, _, _, _, _, _)
MergeCompare(st, leftArr, rightArr, left, mid, i, j, k) ==
    IF i < Len(leftArr) /\ j < Len(rightArr)
    THEN LET s1 == Append(st.steps, [type |-> "compare", array |-> st.array,
                                     indices |-> <<left + i, mid + 1 + j>>])
             takeLeft == At(leftArr, i) <= At(rightArr, j)
             a2 == IF takeLeft THEN SetAt(st.array, k, At(leftArr, i))
                               ELSE SetAt(st.array, k, At(rightArr, j))
             s2 == Append(s1, [type |-> "place", array |-> a2,
                               indices |-> <<k>>])
         IN  MergeCompare([array |-> a2, steps |-> s2], leftArr, rightArr,
                          left, mid,
                          IF takeLeft THEN i + 1 ELSE i,
                          IF takeLeft THEN j ELSE j + 1, k + 1)
    ELSE [array |-> st.array, steps |-> st.steps, i |-> i, j |-> j, k |-> k]

RECURSIVE MergeCopy(_, _, _, _)
MergeCopy(st, src, i, k) ==
    IF i < Len(src)
    THEN LET a2 == SetAt(st.array, k, At(src, i))
         IN  MergeCopy([array |-> a2,
                        steps |-> Append(st.steps, [type |-> "place",
                                                    array |-> a2,
                                                    indices |-> <<k>>])],
                       src, i + 1, k + 1)
    ELSE [array |-> st.array, steps |-> st.steps, k |-> k]

merge(st, left, mid, right, depth) ==
    LET leftArr  == slice(st.array, left, mid + 1)
        rightArr == slice(st.array, mid + 1, right + 1)
        s0 == [array |-> st.array,
               steps |-> Append(st.steps, [type |-> "merge-start",
                                           array |-> st.array,
                                           range |-> <<left, right>>,
                                           depth |-> depth])]
        r1 == MergeCompare(s0, leftArr, rightArr, left, mid, 0, 0, left)
        r2 == MergeCopy([array |-> r1.array, steps |-> r1.steps],
                        leftArr, r1.i, r1.k)
        r3 == MergeCopy([array |-> r2.array, steps |-> r2.steps],
                        rightArr, r1.j, r2.k)
    IN  [array |-> r3.array,
         steps |-> Append(r3.steps, [type |-> "merge-complete",
                                     array |-> r3.array,
                                     range |-> <<left, right>>])]

RECURSIVE mergeSortHelper(_, _, _, _)
mergeSortHelper(st, left, right, depth) ==
    IF left >= right
    THEN st
    ELSE LET mid == (left + right) \div 2
             s0  == [array |-> st.array,
                     steps |-> Append(st.steps, [type |-> "divide",
                                                 array |-> st.array,
                                                 range |-> <<left, right>>,
                                                 mid |-> mid,
                                                 depth |-> depth])]
             s1  == mergeSortHelper(s0, left, mid, depth + 1)
             s2  == mergeSortHelper(s1, mid + 1, right, depth + 1)
         IN  merge(s2, left, mid, right, depth)

\* mergeSort without the final push of the `complete` step
mergeSort_noComplete(a) ==
    LET array == a
        s0 == [array |-> array,
               steps |-> <<[type |-> "init", array |-> array]>>]
        r  == mergeSortHelper(s0, 0, Len(array) - 1, 0)
    IN  r.steps

mergeSort(a) ==
    LET array == a
        s0 == [array |-> array,
               steps |-> <<[type |-> "init", array |-> array]>>]
        r  == mergeSortHelper(s0, 0, Len(array) - 1, 0)
    IN  Append(r.steps, [type |-> "complete", array |-> r.array,
                         sorted |-> ArrayFromUp(Len(r.array))])

\* ------------------------------------------------ sorting: state machine
RECURSIVE SeqsUpTo(_, _)
SeqsUpTo(S, n) ==
    IF n = 0 THEN {<<>>}
    ELSE LET shorter == SeqsUpTo(S, n - 1)
         IN  shorter \cup {Append(s, v) : s \in shorter, v \in S}

ArrayInputs == SeqsUpTo(1..MaxVal, MaxLen)

NoGrid == [rows |-> 0, cols |-> 0, start |-> [row |-> 0, col |-> 0],
           walls |-> {}]

\* the parts of the application a run does not use stay as constructed
SortIdle == arr = <<>> /\ sortAlg = "none" /\ sortSteps = <<>>

GraphIdle == grid = NoGrid /\ bfsSteps = <<>> /\ dfsSteps = <<>>

PQIdle == pqValues = <<>> /\ pqCount = 0 /\ pqLog = <<>>

NoPathGrid == [rows |-> 0, cols |-> 0, start |-> [row |-> 0, col |-> 0],
               end |-> [row |-> 0, col |-> 0], walls |-> {}]

PathIdle == pgrid = NoPathGrid /\ dijkstraSteps = <<>> /\ aStarSteps = <<>>

\* null, the absent child (and the root of the empty tree)
Null == 0

TreeIdle ==
    /\ tree = [root |-> Null, nodes |-> <<>>]
    /\ treeAlg = "none"
    /\ treeSteps = <<>>

\* the buttons as the first updateControlButtonStates() leaves them, with a
\* controller that is neither playing nor paused
UiIdle ==
    /\ btnPlayDisabled = FALSE
    /\ btnPauseDisabled = TRUE
    /\ btnStepDisabled = FALSE

\* no call of onStepChange recorded
RunIdle == raised = <<>>

\* the AnimationController as its constructor leaves it
PlayIdle ==
    /\ loadedSteps = <<>>
    /\ currentStepIndex = 0
    /\ isPlaying = FALSE
    /\ isPaused = FALSE
    /\ loops = [l \in 1..MaxLoops |-> "idle"]
    /\ notified = <<>>
    /\ lastOp = "constructor"

\* The generators take a reference to the caller's array object.
CallerArray == "arr"

\* `[...arr]` without the copy: the same array object
Spread_sameObject(ref) == ref

\* `[...arr]`: a new array object that holds the elements of ref
Spread(ref) == "array"

\* const array = [...arr]: the object that every write of a generator
\* (swap, array[j + 1] = ..., arr[k] = ...) goes to
WrittenObject == Spread(CallerArray)

\* the contents of the caller's array object when the generator returns;
\* the `complete` step holds the final contents of the written object
CallerArrayAfter(a, steps) ==
    IF WrittenObject = CallerArray THEN Last(steps).array ELSE a

SortInit ==
    /\ arr \in ArrayInputs
    /\ sortAlg = "none"
    /\ sortSteps = <<>>
    /\ GraphIdle /\ PQIdle /\ PathIdle /\ TreeIdle /\ PlayIdle /\ UiIdle /\ RunIdle

CallBubbleSort ==
    /\ sortAlg = "none"
    /\ sortSteps' = bubbleSort(arr)
    /\ sortAlg' = "bubbleSort"
    /\ arr' = CallerArrayAfter(arr, sortSteps')
    /\ UNCHANGED <<graphVars, pqVars, pathVars, treeVars, playVars, uiVars, runVars>>

CallInsertionSort ==
    /\ sortAlg = "none"
    /\ sortSteps' = insertionSort(arr)
    /\ sortAlg' = "insertionSort"
    /\ arr' = CallerArrayAfter(arr, sortSteps')
    /\ UNCHANGED <<graphVars, pqVars, pathVars, treeVars, playVars, uiVars, runVars>>

CallMergeSort ==
    /\ sortAlg = "none"
    /\ sortSteps' = mergeSort(arr)
    /\ sortAlg' = "mergeSort"
    /\ arr' = CallerArrayAfter(arr, sortSteps')
    /\ UNCHANGED <<graphVars, pqVars, pathVars, treeVars, playVars, uiVars, runVars>>

SortNext == CallBubbleSort \/ CallInsertionSort \/ CallMergeSort

SpecSort == SortInit /\ [][SortNext]_vars

\* ------------------------------------------------------------ claim C1
IsSortedAsc(a) == \A p \in 1..(Len(a) - 1) : a[p] <= a[p + 1]

Count(a, v) == Cardinality({p \in DOMAIN a : a[p] = v})

IsPermutationOf(a, b) ==
    /\ Len(a) = Len(b)
    /\ \A v \in Range(a) \cup Range(b) : Count(a, v) = Count(b, v)

\* C1: once a sorting generator has returned, the last step is `complete`,
\* its array snapshot is a sorted permutation of the input, and its sorted
\* index list covers exactly the indices 0..n-1.
C1_SortComplete ==
    sortAlg # "none" =>
        LET last == Last(sortSteps)
        IN  /\ last.type = "complete"
            /\ IsSortedAsc(last.array)
            /\ IsPermutationOf(last.array, arr)
            /\ Range(last.sorted) = 0..(Len(arr) - 1)

C1_Witness ==
    /\ sortAlg = "mergeSort"
    /\ arr = <<3, 1, 2, 1>>
    /\ Last(sortSteps).array = <<1, 1, 2, 3>>

\* ------------------------------------------------------- grid primitives
\* a position is the object { row, col }; the key `${row},${col}` of a
\* position is the pair of its two integers (the string is one-to-one)
Pos(r, c) == [row |-> r, col |-> c]

Key(p) == <<p.row, p.col>>

\* the direction table with Down listed before Up
directions_downFirst == << <<1, 0>>, <<-1, 0>>, <<0, -1>>, <<0, 1>> >>

directions == << <<-1, 0>>, <<1, 0>>, <<0, -1>>, <<0, 1>> >>

getNeighbors_noUp(row, col, rows, cols) ==
    LET cand == [d \in 1..4 |-> Pos(row + directions[d][1],
                                    col + directions[d][2])]
        inGrid(p) == /\ p.row > 0 /\ p.row < rows
                     /\ p.col >= 0 /\ p.col < cols
    IN  SelectSeq(cand, inGrid)

getNeighbors(row, col, rows, cols) ==
    LET cand == [d \in 1..4 |-> Pos(row + directions[d][1],
                                    col + directions[d][2])]
        inGrid(p) == /\ p.row >= 0 /\ p.row < rows
                     /\ p.col >= 0 /\ p.col < cols
    IN  SelectSeq(cand, inGrid)

\* ------------------------------------------------------------------ Queue
QueueEnqueue(items, element) == Append(items, element)

\* dequeue() with this.items.pop(): the newest element leaves first
QueueDequeue_pop(items) ==
    [element |-> items[Len(items)], items |-> SubSeq(items, 1, Len(items) - 1)]

QueueDequeue(items) == [element |-> Head(items), items |-> Tail(items)]

QueueIsEmpty(items) == Len(items) = 0

QueueSize(items) == Len(items)

\* -------------------------------------------------------------------- bfs
\* st = [queue, visited, steps]
RECURSIVE BfsNeighbors(_, _, _, _, _)
BfsNeighbors(st, current, neighbors, k, walls) ==
    IF k > Len(neighbors)
    THEN st
    ELSE LET neighbor == neighbors[k]
             key == Key(neighbor)
         IN  IF key \notin st.visited /\ key \notin walls
             THEN LET v2 == st.visited \cup {key}
                      q2 == QueueEnqueue(st.queue, neighbor)
                  IN  BfsNeighbors(
                          [queue |-> q2, visited |-> v2,
                           steps |-> Append(st.steps,
                               [type |-> "discover", current |-> current,
                                neighbor |-> neighbor, visited |-> v2,
                                queueSize |-> QueueSize(q2)])],
                          current, neighbors, k + 1, walls)
             ELSE BfsNeighbors(st, current, neighbors, k + 1, walls)

\* bfs that marks a cell as visited when it is dequeued, not when it is
\* discovered
RECURSIVE BfsNeighbors_noMark(_, _, _, _, _)
BfsNeighbors_noMark(st, current, neighbors, k, walls) ==
    IF k > Len(neighbors)
    THEN st
    ELSE LET neighbor == neighbors[k]
             key == Key(neighbor)
         IN  IF key \notin st.visited /\ key \notin walls
             THEN LET q2 == QueueEnqueue(st.queue, neighbor)
                  IN  BfsNeighbors_noMark(
                          [queue |-> q2, visited |-> st.visited,
                           steps |-> Append(st.steps,
                               [type |-> "discover", current |-> current,
                                neighbor |-> neighbor,
                                visited |-> st.visited,
                                queueSize |-> QueueSize(q2)])],
                          current, neighbors, k + 1, walls)
             ELSE BfsNeighbors_noMark(st, current, neighbors, k + 1, walls)

RECURSIVE BfsWhile_markOnVisit(_, _, _, _)
BfsWhile_markOnVisit(st, rows, cols, walls) ==
    IF QueueIsEmpty(st.queue)
    THEN st
    ELSE LET d == QueueDequeue(st.queue)
             current == d.element
             v2 == st.visited \cup {Key(current)}
             s1 == [queue |-> d.items, visited |-> v2,
                    steps |-> Append(st.steps,
                        [type |-> "visit", current |-> current,
                         visited |-> v2])]
             neighbors == getNeighbors(current.row, current.col, rows, cols)
         IN  BfsWhile_markOnVisit(
                 BfsNeighbors_noMark(s1, current, neighbors, 1, walls),
                 rows, cols, walls)

RECURSIVE BfsWhile(_, _, _, _)
BfsWhile(st, rows, cols, walls) ==
    IF QueueIsEmpty(st.queue)
    THEN st
    ELSE LET d == QueueDequeue(st.queue)
             current == d.element
             s1 == [queue |-> d.items, visited |-> st.visited,
                    steps |-> Append(st.steps,
                        [type |-> "visit", current |-> current,
                         visited |-> st.visited])]
             neighbors == getNeighbors(current.row, current.col, rows, cols)
         IN  BfsWhile(BfsNeighbors(s1, current, neighbors, 1, walls),
                      rows, cols, walls)

bfs(rows, cols, start, walls) ==
    LET visited == {Key(start)}
        s0 == [queue |-> QueueEnqueue(<<>>, start), visited |-> visited,
               steps |-> <<[type |-> "init", current |-> start,
                            visited |-> visited]>>]
        r  == BfsWhile(s0, rows, cols, walls)
    IN  Append(r.steps, [type |-> "complete", visited |-> r.visited])

\* -------------------------------------------------------------------- dfs
\* st = [visited, steps]
RECURSIVE dfsHelper(_, _, _, _, _, _)
RECURSIVE DfsNeighbors(_, _, _, _, _, _, _, _)
DfsNeighbors(st, node, depth, neighbors, k, rows, cols, walls) ==
    IF k > Len(neighbors)
    THEN st
    ELSE LET neighbor == neighbors[k]
             neighborKey == Key(neighbor)
         IN  IF neighborKey \notin st.visited /\ neighborKey \notin walls
             THEN LET s1 == [visited |-> st.visited,
                             steps |-> Append(st.steps,
                                 [type |-> "discover", current |-> node,
                                  neighbor |-> neighbor,
                                  visited |-> st.visited,
                                  depth |-> depth + 1])]
                      s2 == dfsHelper(s1, neighbor, depth + 1,
                                      rows, cols, walls)
                      s3 == [visited |-> s2.visited,
                             steps |-> Append(s2.steps,
                                 [type |-> "backtrack", current |-> neighbor,
                                  parent |-> node, visited |-> s2.visited])]
                  IN  DfsNeighbors(s3, node, depth, neighbors, k + 1,
                                   rows, cols, walls)
             ELSE DfsNeighbors(st, node, depth, neighbors, k + 1,
                               rows, cols, walls)

dfsHelper(st, node, depth, rows, cols, walls) ==
    LET key == Key(node)
    IN  IF key \in st.visited \/ key \in walls
        THEN st
        ELSE LET v2 == st.visited \cup {key}
                 s1 == [visited |-> v2,
                        steps |-> Append(st.steps,
                            [type |-> "visit", current |-> node,
                             visited |-> v2, depth |-> depth])]
                 neighbors == getNeighbors(node.row, node.col, rows, cols)
             IN  DfsNeighbors(s1, node, depth, neighbors, 1,
                              rows, cols, walls)

dfs(rows, cols, start, walls) ==
    LET s0 == [visited |-> {},
               steps |-> <<[type |-> "init", current |-> start,
                            visited |-> {}]>>]
        r  == dfsHelper(s0, start, 0, rows, cols, walls)
    IN  Append(r.steps, [type |-> "complete", visited |-> r.visited])

\* ---------------------------------------------- traversal: state machine
Cells(rows, cols) == {<<r, c>> : r \in 0..(rows - 1), c \in 0..(cols - 1)}

WallSets(cells, most) == {w \in SUBSET cells : Cardinality(w) <= most}

GraphInit ==
    /\ \E rows \in 1..MaxRows, cols \in 1..MaxCols :
         \E s \in Cells(rows, cols), w \in WallSets(Cells(rows, cols), MaxWalls) :
            grid = [rows |-> rows, cols |-> cols,
                    start |-> Pos(s[1], s[2]), walls |-> w]
    /\ bfsSteps = <<>>
    /\ dfsSteps = <<>>
    /\ SortIdle /\ PQIdle /\ PathIdle /\ TreeIdle /\ PlayIdle /\ UiIdle /\ RunIdle

CallBfs ==
    /\ bfsSteps = <<>>
    /\ bfsSteps' = bfs(grid.rows, grid.cols, grid.start, grid.walls)
    /\ UNCHANGED <<grid, dfsSteps, sortVars, pqVars, pathVars, treeVars, playVars, uiVars, runVars>>

CallDfs ==
    /\ dfsSteps = <<>>
    /\ dfsSteps' = dfs(grid.rows, grid.cols, grid.start, grid.walls)
    /\ UNCHANGED <<grid, bfsSteps, sortVars, pqVars, pathVars, treeVars, playVars, uiVars, runVars>>

GraphNext == CallBfs \/ CallDfs

SpecGraph == GraphInit /\ [][GraphNext]_vars

\* ------------------------------------------------------------ claim C2
\* independent flood fill: the non-wall cells that a walk of 4-directional
\* moves through non-wall cells reaches from start
Adjacent(a, b) ==
    \/ a[1] = b[1] /\ (a[2] = b[2] + 1 \/ b[2] = a[2] + 1)
    \/ a[2] = b[2] /\ (a[1] = b[1] + 1 \/ b[1] = a[1] + 1)

RECURSIVE Fill(_, _)
Fill(open, S) ==
    LET more == S \cup {c \in open : \E d \in S : Adjacent(c, d)}
    IN  IF more = S THEN S ELSE Fill(open, more)

FloodFill(rows, cols, from, walls) ==
    LET open == Cells(rows, cols) \ walls
    IN  Fill(open, {from} \cap open)

ReachableCount ==
    Cardinality(FloodFill(grid.rows, grid.cols, Key(grid.start), grid.walls))

\* C2: the visited set of the `complete` step of bfs and of dfs has as many
\* cells as the flood fill finds non-wall cells reachable from start.
C2_VisitedCountIsReachable ==
    /\ bfsSteps # <<>> =>
         /\ Last(bfsSteps).type = "complete"
         /\ Cardinality(Last(bfsSteps).visited) = ReachableCount
    /\ dfsSteps # <<>> =>
         /\ Last(dfsSteps).type = "complete"
         /\ Cardinality(Last(dfsSteps).visited) = ReachableCount

\* ---------------------------------------------------------- PriorityQueue
\* `undefined`, a value that is no queue entry
Undefined == [undefined |-> TRUE]

\* Array.prototype.sort is stable: entries the comparator calls equal keep
\* their order.  PQInsertSorted puts e behind every entry of the sorted run
\* whose priority is not larger.
PQInsertSorted_front(sorted, e) ==
    LET k == Cardinality({p \in DOMAIN sorted :
                             sorted[p].priority < e.priority})
    IN  SubSeq(sorted, 1, k) \o <<e>> \o SubSeq(sorted, k + 1, Len(sorted))

PQInsertSorted_desc(sorted, e) ==
    LET k == Cardinality({p \in DOMAIN sorted :
                             sorted[p].priority >= e.priority})
    IN  SubSeq(sorted, 1, k) \o <<e>> \o SubSeq(sorted, k + 1, Len(sorted))

PQInsertSorted(sorted, e) ==
    LET k == Cardinality({p \in DOMAIN sorted :
                             sorted[p].priority <= e.priority})
    IN  SubSeq(sorted, 1, k) \o <<e>> \o SubSeq(sorted, k + 1, Len(sorted))

RECURSIVE PQSort(_)
PQSort(values) ==
    IF values = <<>>
    THEN <<>>
    ELSE PQInsertSorted(PQSort(SubSeq(values, 1, Len(values) - 1)),
                        Last(values))

PQEnqueue(values, element, priority) ==
    PQSort(Append(values, [element |-> element, priority |-> priority]))

\* values.shift(): the first entry, or undefined on an empty array
PQDequeue(values) ==
    IF Len(values) = 0
    THEN [result |-> Undefined, values |-> values]
    ELSE [result |-> Head(values), values |-> Tail(values)]

PQIsEmpty(values) == Len(values) = 0

\* ------------------------------------------- PriorityQueue: state machine
PQInit ==
    /\ pqValues = <<>>
    /\ pqCount = 0
    /\ pqLog = <<>>
    /\ SortIdle /\ GraphIdle /\ PathIdle /\ TreeIdle /\ PlayIdle /\ UiIdle /\ RunIdle

Enqueue ==
    /\ pqCount < MaxEnq
    /\ \E priority \in 1..MaxPrio :
         pqValues' = PQEnqueue(pqValues, pqCount + 1, priority)
    /\ pqCount' = pqCount + 1
    /\ UNCHANGED <<pqLog, sortVars, graphVars, pathVars, treeVars, playVars, uiVars, runVars>>

Dequeue ==
    /\ Len(pqLog) < MaxDeq
    /\ LET d == PQDequeue(pqValues)
       IN  /\ pqValues' = d.values
           /\ pqLog' = Append(pqLog, d.result)
    /\ UNCHANGED <<pqCount, sortVars, graphVars, pathVars, treeVars, playVars, uiVars, runVars>>

PQNext == Enqueue \/ Dequeue

SpecPQ == PQInit /\ [][PQNext]_vars

\* ------------------------------------------------------------ claim C6
\* C6: a dequeue on a non-empty queue returns an entry that was present,
\* whose priority no present entry undercuts and, among the present entries
\* of that priority, the one enqueued first; exactly that entry is removed.
C6_DequeueMinStable ==
    [][(Len(pqLog') = Len(pqLog) + 1 /\ pqValues # <<>>) =>
         LET ret == Last(pqLog')
         IN  /\ ret \in Range(pqValues)
             /\ \A e \in Range(pqValues) :
                  /\ ret.priority <= e.priority
                  /\ e.priority = ret.priority => ret.element <= e.element
             /\ Range(pqValues') = Range(pqValues) \ {ret}
             /\ Len(pqValues') = Len(pqValues) - 1]_vars

\* (A,5),(B,2),(C,2) enqueued, then B and C dequeued in that order
C6_Witness ==
    /\ pqCount = 3
    /\ pqLog = <<[element |-> 2, priority |-> 2],
                 [element |-> 3, priority |-> 2]>>
    /\ pqValues = <<[element |-> 1, priority |-> 5]>>

\* ------------------------------------------------------ Map, path helpers
\* a Map is a function on the set of keys that were set
EmptyMap == <<>>

MapHas(m, k) == k \in DOMAIN m

MapSet(m, k, v) == [x \in DOMAIN m \cup {k} |-> IF x = k THEN v ELSE m[x]]

Abs(x) == IF x < 0 THEN -x ELSE x

\* the distance without Math.abs around the two differences
manhattanDistance_noAbs(nodeA, nodeB) ==
    (nodeA.row - nodeB.row) + (nodeA.col - nodeB.col)

manhattanDistance(nodeA, nodeB) ==
    Abs(nodeA.row - nodeB.row) + Abs(nodeA.col - nodeB.col)

SamePos_colOnly(a, b) == a.col = b.col

SamePos(a, b) == a.row = b.row /\ a.col = b.col

\* the loop without `path.unshift(start)` before the break
RECURSIVE ReconstructLoop_noStart(_, _, _, _)
ReconstructLoop_noStart(parentMap, start, current, path) ==
    LET path2 == <<current>> \o path
        key   == Key(current)
    IN  IF ~MapHas(parentMap, key)
        THEN path2
        ELSE LET parent == parentMap[key]
             IN  IF SamePos(parent, start)
                 THEN path2
                 ELSE ReconstructLoop_noStart(parentMap, start, parent, path2)

\* the while loop of reconstructPath; `current` is defined on entry
RECURSIVE ReconstructLoop(_, _, _, _)
ReconstructLoop(parentMap, start, current, path) ==
    LET path2 == <<current>> \o path
        key   == Key(current)
    IN  IF ~MapHas(parentMap, key)
        THEN path2
        ELSE LET parent == parentMap[key]
             IN  IF SamePos(parent, start)
                 THEN <<start>> \o path2
                 ELSE ReconstructLoop(parentMap, start, parent, path2)

reconstructPath(parentMap, start, end) ==
    ReconstructLoop(parentMap, start, end, <<>>)

\* --------------------------------------------------------------- dijkstra
\* st = [pq, distances, previous, visited, steps]
RECURSIVE DijkstraNeighbors(_, _, _, _, _, _)
DijkstraNeighbors(st, current, currentDist, neighbors, k, walls) ==
    IF k > Len(neighbors)
    THEN st
    ELSE LET neighbor == neighbors[k]
             neighborKey == Key(neighbor)
             newDist == currentDist + 1
             \* newDist < (distances.get(neighborKey) ?? Infinity)
             improves == IF MapHas(st.distances, neighborKey)
                         THEN newDist < st.distances[neighborKey]
                         ELSE TRUE
         IN  IF neighborKey \in walls \/ neighborKey \in st.visited
             THEN DijkstraNeighbors(st, current, currentDist, neighbors,
                                    k + 1, walls)
             ELSE IF improves
             THEN DijkstraNeighbors(
                      [pq |-> PQEnqueue(st.pq, neighbor, newDist),
                       distances |-> MapSet(st.distances, neighborKey,
                                            newDist),
                       previous |-> MapSet(st.previous, neighborKey, current),
                       visited |-> st.visited,
                       steps |-> Append(st.steps,
                           [type |-> "update", current |-> current,
                            neighbor |-> neighbor, distance |-> newDist,
                            visited |-> st.visited])],
                      current, currentDist, neighbors, k + 1, walls)
             ELSE DijkstraNeighbors(st, current, currentDist, neighbors,
                                    k + 1, walls)

RECURSIVE DijkstraWhile(_, _, _, _, _, _)
DijkstraWhile(st, rows, cols, start, end, walls) ==
    IF PQIsEmpty(st.pq)
    THEN Append(st.steps, [type |-> "no-path", visited |-> st.visited])
    ELSE LET d == PQDequeue(st.pq)
             current == d.result.element
             currentDist == d.result.priority
             currentKey == Key(current)
             popped == [st EXCEPT !.pq = d.values]
         IN  IF currentKey \in st.visited
             THEN DijkstraWhile(popped, rows, cols, start, end, walls)
             ELSE LET v2 == st.visited \cup {currentKey}
                      s1 == [popped EXCEPT
                               !.visited = v2,
                               !.steps = Append(st.steps,
                                   [type |-> "visit", current |-> current,
                                    distance |-> currentDist,
                                    visited |-> v2])]
                  IN  IF SamePos(current, end)
                      THEN Append(s1.steps,
                               [type |-> "path-found",
                                path |-> reconstructPath(st.previous,
                                                         start, end),
                                distance |-> currentDist,
                                visited |-> v2])
                      ELSE DijkstraWhile(
                               DijkstraNeighbors(s1, current, currentDist,
                                   getNeighbors(current.row, current.col,
                                                rows, cols),
                                   1, walls),
                               rows, cols, start, end, walls)

dijkstra(rows, cols, start, end, walls) ==
    LET startKey == Key(start)
        s0 == [pq |-> PQEnqueue(<<>>, start, 0),
               distances |-> MapSet(EmptyMap, startKey, 0),
               previous |-> EmptyMap,
               visited |-> {},
               steps |-> <<[type |-> "init", start |-> start,
                            end |-> end]>>]
    IN  DijkstraWhile(s0, rows, cols, start, end, walls)

\* ------------------------------------------------------------------ aStar
\* st = [openSet, gScore, fScore, previous, visited, steps]
RECURSIVE AStarNeighbors(_, _, _, _, _, _, _)
AStarNeighbors(st, current, g, neighbors, k, end, walls) ==
    IF k > Len(neighbors)
    THEN st
    ELSE LET neighbor == neighbors[k]
             neighborKey == Key(neighbor)
             tentativeG == g + 1
             \* tentativeG < (gScore.get(neighborKey) ?? Infinity)
             improves == IF MapHas(st.gScore, neighborKey)
                         THEN tentativeG < st.gScore[neighborKey]
                         ELSE TRUE
             h == manhattanDistance(neighbor, end)
             f == tentativeG + h
         IN  IF neighborKey \in walls \/ neighborKey \in st.visited
             THEN AStarNeighbors(st, current, g, neighbors, k + 1, end, walls)
             ELSE IF improves
             THEN AStarNeighbors(
                      [openSet |-> PQEnqueue(st.openSet, neighbor, f),
                       gScore |-> MapSet(st.gScore, neighborKey, tentativeG),
                       fScore |-> MapSet(st.fScore, neighborKey, f),
                       previous |-> MapSet(st.previous, neighborKey, current),
                       visited |-> st.visited,
                       steps |-> Append(st.steps,
                           [type |-> "update", current |-> current,
                            neighbor |-> neighbor, gScore |-> tentativeG,
                            hScore |-> h, fScore |-> f,
                            visited |-> st.visited])],
                      current, g, neighbors, k + 1, end, walls)
             ELSE AStarNeighbors(st, current, g, neighbors, k + 1, end, walls)

\* the loop without `if (visited.has(currentKey)) continue;`: an entry of
\* the open set is expanded even when its cell was visited before
RECURSIVE AStarWhile_noSkip(_, _, _, _, _, _)
AStarWhile_noSkip(st, rows, cols, start, end, walls) ==
    IF PQIsEmpty(st.openSet)
    THEN Append(st.steps, [type |-> "no-path", visited |-> st.visited])
    ELSE LET d == PQDequeue(st.openSet)
             current == d.result.element
             currentKey == Key(current)
             popped == [st EXCEPT !.openSet = d.values]
         IN       LET v2 == st.visited \cup {currentKey}
                      g  == st.gScore[currentKey]
                      h  == manhattanDistance(current, end)
                      f  == g + h
                      s1 == [popped EXCEPT
                               !.visited = v2,
                               !.steps = Append(st.steps,
                                   [type |-> "visit", current |-> current,
                                    gScore |-> g, hScore |-> h, fScore |-> f,
                                    visited |-> v2])]
                  IN  IF SamePos(current, end)
                      THEN Append(s1.steps,
                               [type |-> "path-found",
                                path |-> reconstructPath(st.previous,
                                                         start, end),
                                distance |-> g,
                                visited |-> v2])
                      ELSE AStarWhile_noSkip(
                               AStarNeighbors(s1, current, g,
                                   getNeighbors(current.row, current.col,
                                                rows, cols),
                                   1, end, walls),
                               rows, cols, start, end, walls)

RECURSIVE AStarWhile(_, _, _, _, _, _)
AStarWhile(st, rows, cols, start, end, walls) ==
    IF PQIsEmpty(st.openSet)
    THEN Append(st.steps, [type |-> "no-path", visited |-> st.visited])
    ELSE LET d == PQDequeue(st.openSet)
             current == d.result.element
             currentKey == Key(current)
             popped == [st EXCEPT !.openSet = d.values]
         IN  IF currentKey \in st.visited
             THEN AStarWhile(popped, rows, cols, start, end, walls)
             ELSE LET v2 == st.visited \cup {currentKey}
                      g  == st.gScore[currentKey]
                      h  == manhattanDistance(current, end)
                      f  == g + h
                      s1 == [popped EXCEPT
                               !.visited = v2,
                               !.steps = Append(st.steps,
                                   [type |-> "visit", current |-> current,
                                    gScore |-> g, hScore |-> h, fScore |-> f,
                                    visited |-> v2])]
                  IN  IF SamePos(current, end)
                      THEN Append(s1.steps,
                               [type |-> "path-found",
                                path |-> reconstructPath(st.previous,
                                                         start, end),
                                distance |-> g,
                                visited |-> v2])
                      ELSE AStarWhile(
                               AStarNeighbors(s1, current, g,
                                   getNeighbors(current.row, current.col,
                                                rows, cols),
                                   1, end, walls),
                               rows, cols, start, end, walls)

aStar(rows, cols, start, end, walls) ==
    LET startKey == Key(start)
        f0 == manhattanDistance(start, end)
        s0 == [openSet |-> PQEnqueue(<<>>, start, f0),
               gScore |-> MapSet(EmptyMap, startKey, 0),
               fScore |-> MapSet(EmptyMap, startKey, f0),
               previous |-> EmptyMap,
               visited |-> {},
               steps |-> <<[type |-> "init", start |-> start, end |-> end,
                            heuristic |-> manhattanDistance(start, end)]>>]
    IN  AStarWhile(s0, rows, cols, start, end, walls)

\* -------------------------------------------- pathfinding: state machine
\* the grid of PathVisualizer: start and end are never wall cells
\* (generateRandomWalls and the wall-drawing handlers skip both)
PathInit ==
    /\ \E rows \in 1..MaxPathRows, cols \in 1..MaxPathCols :
         \E s \in Cells(rows, cols), e \in Cells(rows, cols) :
            \E w \in WallSets(Cells(rows, cols) \ {s, e}, MaxPathWalls) :
               pgrid = [rows |-> rows, cols |-> cols,
                        start |-> Pos(s[1], s[2]), end |-> Pos(e[1], e[2]),
                        walls |-> w]
    /\ dijkstraSteps = <<>>
    /\ aStarSteps = <<>>
    /\ SortIdle /\ GraphIdle /\ PQIdle /\ TreeIdle /\ PlayIdle /\ UiIdle /\ RunIdle

CallDijkstra ==
    /\ dijkstraSteps = <<>>
    /\ dijkstraSteps' = dijkstra(pgrid.rows, pgrid.cols, pgrid.start,
                                 pgrid.end, pgrid.walls)
    /\ UNCHANGED <<pgrid, aStarSteps, sortVars, graphVars, pqVars, treeVars, playVars, uiVars, runVars>>

CallAStar ==
    /\ aStarSteps = <<>>
    /\ aStarSteps' = aStar(pgrid.rows, pgrid.cols, pgrid.start,
                           pgrid.end, pgrid.walls)
    /\ UNCHANGED <<pgrid, dijkstraSteps, sortVars, graphVars, pqVars, treeVars, playVars, uiVars, runVars>>

PathNext == CallDijkstra \/ CallAStar

SpecPath == PathInit /\ [][PathNext]_vars

\* square grids whose end cell is a corner and whose walls all stand next
\* to the start or the end cell: the end can be walled in, and then aStar
\* reaches cells by a detour first and by a shorter way later
Corners(side) == {<<r, c>> : r \in {0, side - 1}, c \in {0, side - 1}}

Near(cells, s, e) ==
    {c \in cells \ {s, e} : Adjacent(c, s) \/ Adjacent(c, e)}

NearInit ==
    /\ \E side \in 1..MaxSide :
         \E s \in Cells(side, side), e \in Corners(side) :
            \E w \in WallSets(Near(Cells(side, side), s, e), MaxNearWalls) :
               pgrid = [rows |-> side, cols |-> side,
                        start |-> Pos(s[1], s[2]), end |-> Pos(e[1], e[2]),
                        walls |-> w]
    /\ dijkstraSteps = <<>>
    /\ aStarSteps = <<>>
    /\ SortIdle /\ GraphIdle /\ PQIdle /\ TreeIdle /\ PlayIdle /\ UiIdle /\ RunIdle

SpecNear == NearInit /\ [][PathNext]_vars

\* ------------------------------------------------------- claims C3, C4
PathExists ==
    Key(pgrid.end) \in FloodFill(pgrid.rows, pgrid.cols, Key(pgrid.start),
                                 pgrid.walls)

HasStepOfType(steps, t) == \E k \in DOMAIN steps : steps[k].type = t

\* C3: when a path exists, dijkstra and aStar each end with `path-found`,
\* and aStar reports the same path length and the same distance as dijkstra.
C3_SamePathLength ==
    PathExists =>
        /\ dijkstraSteps # <<>> => Last(dijkstraSteps).type = "path-found"
        /\ aStarSteps # <<>> => Last(aStarSteps).type = "path-found"
        /\ (dijkstraSteps # <<>> /\ aStarSteps # <<>>) =>
             /\ Len(Last(aStarSteps).path) = Len(Last(dijkstraSteps).path)
             /\ Last(aStarSteps).distance = Last(dijkstraSteps).distance

\* both have run on a grid whose shortest path has to leave the straight line
C3_Witness ==
    /\ PathExists
    /\ dijkstraSteps # <<>> /\ aStarSteps # <<>>
    /\ pgrid.walls # {}
    /\ Last(dijkstraSteps).distance >
           manhattanDistance(pgrid.start, pgrid.end)
    /\ Last(aStarSteps).distance = Last(dijkstraSteps).distance

nodeValue(t, node) == t.nodes[node].value

nodeLeft_right(t, node) == t.nodes[node].right

nodeLeft(t, node) == t.nodes[node].left

nodeRight_left(t, node) == t.nodes[node].left

nodeRight(t, node) == t.nodes[node].right

\* a return that leaves the frame on the call stack
Pop_keep(s) == s

Pop(s) == SubSeq(s, 1, Len(s) - 1)

\* st = [callStack, steps]: the closure variables of the traversal
RECURSIVE preorderTraverse(_, _, _, _)
preorderTraverse(st, t, node, depth) ==
    IF node = Null
    THEN [st EXCEPT !.steps = Append(st.steps,
             [type |-> "null-node", callStack |-> st.callStack,
              depth |-> depth])]
    ELSE LET cs == Append(st.callStack, <<"preorder", nodeValue(t, node)>>)
             s1 == [callStack |-> cs,
                    steps |-> st.steps \o
                        <<[type |-> "visit", node |-> node, phase |-> "root",
                           callStack |-> cs, depth |-> depth],
                          [type |-> "recurse", node |-> node,
                           direction |-> "left", callStack |-> cs]>>]
             s2 == preorderTraverse(s1, t, nodeLeft(t, node), depth + 1)
             s3 == [s2 EXCEPT !.steps = Append(s2.steps,
                        [type |-> "recurse", node |-> node,
                         direction |-> "right",
                         callStack |-> s2.callStack])]
             s4 == preorderTraverse(s3, t, nodeRight(t, node), depth + 1)
             cs2 == Pop(s4.callStack)
         IN  [callStack |-> cs2,
              steps |-> Append(s4.steps, [type |-> "return", node |-> node,
                                          callStack |-> cs2])]

preorderTraversal(t) ==
    LET s0 == [callStack |-> <<>>, steps |-> <<[type |-> "init"]>>]
        r  == preorderTraverse(s0, t, t.root, 0)
    IN  Append(r.steps, [type |-> "complete"])

RECURSIVE inorderTraverse(_, _, _, _)
inorderTraverse(st, t, node, depth) ==
    IF node = Null
    THEN [st EXCEPT !.steps = Append(st.steps,
             [type |-> "null-node", callStack |-> st.callStack,
              depth |-> depth])]
    ELSE LET cs == Append(st.callStack, <<"inorder", nodeValue(t, node)>>)
             s1 == [callStack |-> cs,
                    steps |-> Append(st.steps,
                        [type |-> "recurse", node |-> node,
                         direction |-> "left", callStack |-> cs])]
             s2 == inorderTraverse(s1, t, nodeLeft(t, node), depth + 1)
             s3 == [s2 EXCEPT !.steps = s2.steps \o
                        <<[type |-> "visit", node |-> node, phase |-> "root",
                           callStack |-> s2.callStack, depth |-> depth],
                          [type |-> "recurse", node |-> node,
                           direction |-> "right",
                           callStack |-> s2.callStack]>>]
             s4 == inorderTraverse(s3, t, nodeRight(t, node), depth + 1)
             cs2 == Pop(s4.callStack)
         IN  [callStack |-> cs2,
              steps |-> Append(s4.steps, [type |-> "return", node |-> node,
                                          callStack |-> cs2])]

inorderTraversal(t) ==
    LET s0 == [callStack |-> <<>>, steps |-> <<[type |-> "init"]>>]
        r  == inorderTraverse(s0, t, t.root, 0)
    IN  Append(r.steps, [type |-> "complete"])

RECURSIVE postorderTraverse(_, _, _, _)
postorderTraverse(st, t, node, depth) ==
    IF node = Null
    THEN [st EXCEPT !.steps = Append(st.steps,
             [type |-> "null-node", callStack |-> st.callStack,
              depth |-> depth])]
    ELSE LET cs == Append(st.callStack, <<"postorder", nodeValue(t, node)>>)
             s1 == [callStack |-> cs,
                    steps |-> Append(st.steps,
                        [type |-> "recurse", node |-> node,
                         direction |-> "left", callStack |-> cs])]
             s2 == postorderTraverse(s1, t, nodeLeft(t, node), depth + 1)
             s3 == [s2 EXCEPT !.steps = Append(s2.steps,
                        [type |-> "recurse", node |-> node,
                         direction |-> "right",
                         callStack |-> s2.callStack])]
             s4 == postorderTraverse(s3, t, nodeRight(t, node), depth + 1)
             s5 == Append(s4.steps,
                        [type |-> "visit", node |-> node, phase |-> "root",
                         callStack |-> s4.callStack, depth |-> depth])
             cs2 == Pop(s4.callStack)
         IN  [callStack |-> cs2,
              steps |-> Append(s5, [type |-> "return", node |-> node,
                                    callStack |-> cs2])]

postorderTraversal(t) ==
    LET s0 == [callStack |-> <<>>, steps |-> <<[type |-> "init"]>>]
        r  == postorderTraverse(s0, t, t.root, 0)
    IN  Append(r.steps, [type |-> "complete"])

\* ------------------------------------------------ recursion: state machine
\* every binary tree of at most n nodes whose root has the reference i; the
\* children of the node i get the references 2i and 2i+1
RECURSIVE TreeShapes(_, _)
TreeShapes(n, i) ==
    IF n = 0
    THEN {{}}
    ELSE {{}} \cup UNION {
             {{i} \cup l \cup r :
                 r \in TreeShapes(n - 1 - Cardinality(l), 2 * i + 1)}
             : l \in TreeShapes(n - 1, 2 * i)}

TreeOf(shape, value) ==
    [root |-> IF 1 \in shape THEN 1 ELSE Null,
     nodes |-> [i \in shape |->
                  [id |-> i, value |-> value[i],
                   left |-> IF 2 * i \in shape THEN 2 * i ELSE Null,
                   right |-> IF 2 * i + 1 \in shape THEN 2 * i + 1
                             ELSE Null]]]

TreeInputs ==
    UNION {{TreeOf(shape, value) : value \in [shape -> 1..MaxTreeVal]}
           : shape \in TreeShapes(MaxNodes, 1)}

TreeInit ==
    /\ tree \in TreeInputs
    /\ treeAlg = "none"
    /\ treeSteps = <<>>
    /\ SortIdle /\ GraphIdle /\ PQIdle /\ PathIdle /\ PlayIdle /\ UiIdle /\ RunIdle

CallPreorder ==
    /\ treeAlg = "none"
    /\ treeSteps' = preorderTraversal(tree)
    /\ treeAlg' = "preorder"
    /\ UNCHANGED <<tree, sortVars, graphVars, pqVars, pathVars, playVars, uiVars, runVars>>

CallInorder ==
    /\ treeAlg = "none"
    /\ treeSteps' = inorderTraversal(tree)
    /\ treeAlg' = "inorder"
    /\ UNCHANGED <<tree, sortVars, graphVars, pqVars, pathVars, playVars, uiVars, runVars>>

CallPostorder ==
    /\ treeAlg = "none"
    /\ treeSteps' = postorderTraversal(tree)
    /\ treeAlg' = "postorder"
    /\ UNCHANGED <<tree, sortVars, graphVars, pqVars, pathVars, playVars, uiVars, runVars>>

TreeNext == CallPreorder \/ CallInorder \/ CallPostorder

SpecTree == TreeInit /\ [][TreeNext]_vars

\* ------------------------------------------------------------ claim C5
StepsOfType(steps, t) == SelectSeq(steps, LAMBDA st : st.type = t)

VisitedNodes == [k \in DOMAIN StepsOfType(treeSteps, "visit") |->
                    StepsOfType(treeSteps, "visit")[k].node]

RealNodes == DOMAIN tree.nodes

RECURSIVE SubtreeOf(_)
SubtreeOf(node) ==
    IF node = Null
    THEN {}
    ELSE {node} \cup SubtreeOf(tree.nodes[node].left)
                \cup SubtreeOf(tree.nodes[node].right)

VisitPos(node) == CHOOSE k \in DOMAIN VisitedNodes : VisitedNodes[k] = node

\* the reference orders, stated node by node: where the root of a subtree
\* stands relative to all nodes of its left and of its right subtree
RootFirst ==
    \A n \in RealNodes :
        \A x \in SubtreeOf(tree.nodes[n].left) \cup
                 SubtreeOf(tree.nodes[n].right) : VisitPos(n) < VisitPos(x)

RootBetween ==
    \A n \in RealNodes :
        /\ \A x \in SubtreeOf(tree.nodes[n].left) : VisitPos(x) < VisitPos(n)
        /\ \A y \in SubtreeOf(tree.nodes[n].right) : VisitPos(n) < VisitPos(y)

RootLast ==
    \A n \in RealNodes :
        \A x \in SubtreeOf(tree.nodes[n].left) \cup
                 SubtreeOf(tree.nodes[n].right) : VisitPos(x) < VisitPos(n)

LeftBeforeRight ==
    \A n \in RealNodes :
        \A x \in SubtreeOf(tree.nodes[n].left) :
            \A y \in SubtreeOf(tree.nodes[n].right) :
                VisitPos(x) < VisitPos(y)

\* C5: each traversal emits exactly one `visit` step per real node, and the
\* visited nodes come in root-left-right (preorder), left-root-right
\* (inorder) and left-right-root (postorder) order.
C5_VisitOrder ==
    treeAlg # "none" =>
        /\ Len(VisitedNodes) = Cardinality(RealNodes)
        /\ Range(VisitedNodes) = RealNodes
        /\ LeftBeforeRight
        /\ treeAlg = "preorder" => RootFirst
        /\ treeAlg = "inorder" => RootBetween
        /\ treeAlg = "postorder" => RootLast

\* inorder has run on a tree whose root has both a left and a right subtree
C5_Witness ==
    /\ treeAlg = "inorder"
    /\ Cardinality(RealNodes) = MaxNodes
    /\ tree.nodes[1].left # Null /\ tree.nodes[1].right # Null
    /\ VisitedNodes[1] # 1 /\ Last(VisitedNodes) # 1

\* ---------------------------------------------------- AnimationController
\* null, what getCurrentStep returns when no step stands at the index
NullStep == [null |-> TRUE]

\* return this.steps[this.currentStepIndex] || null
getCurrentStep(stepSeq, index) ==
    IF index >= 0 /\ index < Len(stepSeq)
    THEN stepSeq[index + 1]
    ELSE NullStep

\* this.onStepChange(step, this.currentStepIndex)
Notification(stepSeq, index) ==
    [step |-> getCurrentStep(stepSeq, index), index |-> index]

NoLoopRunning == \A l \in DOMAIN loops : loops[l] = "idle"

FreeSlots == {l \in DOMAIN loops : loops[l] = "idle"}

\* this.currentStepIndex < this.steps.length - 1
CanStepForward_toLength(index, stepSeq) == index < Len(stepSeq)

CanStepForward(index, stepSeq) == index < Len(stepSeq) - 1

\* the loop exit without `this.currentStepIndex = this.steps.length - 1`
LoopRun_noClamp(l, index, playing, paused) ==
    IF playing /\ index < Len(loadedSteps)
    THEN /\ currentStepIndex' = index
         /\ isPlaying' = playing
         /\ isPaused' = paused
         /\ IF paused
            THEN /\ loops' = [loops EXCEPT ![l] = "pauseDelay"]
                 /\ notified' = <<>>
            ELSE /\ loops' = [loops EXCEPT ![l] = "stepDelay"]
                 /\ notified' = <<Notification(loadedSteps, index)>>
    ELSE /\ loops' = [loops EXCEPT ![l] = "idle"]
         /\ isPaused' = paused
         /\ notified' = <<>>
         /\ IF index >= Len(loadedSteps)
            THEN /\ isPlaying' = FALSE
                 /\ currentStepIndex' = index
            ELSE /\ isPlaying' = playing
                 /\ currentStepIndex' = index

\* The body of play() from the head of its while loop up to the next await,
\* or through the lines after the loop when the loop condition fails.  The
\* call runs in slot l; index, playing and paused are the values of the
\* fields when control reaches the loop head.
LoopRun(l, index, playing, paused) ==
    IF playing /\ index < Len(loadedSteps)
    THEN /\ currentStepIndex' = index
         /\ isPlaying' = playing
         /\ isPaused' = paused
         /\ IF paused
            THEN /\ loops' = [loops EXCEPT ![l] = "pauseDelay"]
                 /\ notified' = <<>>
            ELSE /\ loops' = [loops EXCEPT ![l] = "stepDelay"]
                 /\ notified' = <<Notification(loadedSteps, index)>>
    ELSE /\ loops' = [loops EXCEPT ![l] = "idle"]
         /\ isPaused' = paused
         /\ notified' = <<>>
         /\ IF index >= Len(loadedSteps)
            THEN /\ isPlaying' = FALSE
                 /\ currentStepIndex' = Len(loadedSteps) - 1
            ELSE /\ isPlaying' = playing
                 /\ currentStepIndex' = index

PlayInit ==
    /\ PlayIdle
    /\ UiIdle /\ RunIdle
    /\ SortIdle /\ GraphIdle /\ PQIdle /\ PathIdle /\ TreeIdle

OnlyPlay == UNCHANGED <<sortVars, graphVars, pqVars, pathVars, treeVars>>

\* loadSteps(steps)
loadSteps(stepSeq) ==
    /\ loadedSteps' = stepSeq
    /\ currentStepIndex' = 0
    /\ isPlaying' = FALSE
    /\ isPaused' = FALSE
    /\ notified' = <<>>
    /\ lastOp' = "loadSteps"
    /\ UNCHANGED loops
    /\ OnlyPlay

\* loadSteps(steps) with a sequence of n steps s0 .. s(n-1)
LoadSteps == \E n \in 0..MaxSteps : loadSteps([k \in 1..n |-> [name |-> k - 1]])

\* play(): returns at once when isPlaying; otherwise the call sets the flags
\* and runs to its first await
Play ==
    /\ lastOp' = "play"
    /\ IF isPlaying
       THEN /\ notified' = <<>>
            /\ UNCHANGED <<currentStepIndex, isPlaying, isPaused, loops>>
       ELSE \E l \in FreeSlots :
               /\ \A other \in FreeSlots : l <= other
               /\ LoopRun(l, currentStepIndex, TRUE, FALSE)
    /\ UNCHANGED loadedSteps
    /\ OnlyPlay

\* the timer of `await delay(speedToDelay(this.speed))` fires
WakeStep(l) ==
    /\ loops[l] = "stepDelay"
    /\ LoopRun(l, currentStepIndex + 1, isPlaying, isPaused)
    /\ lastOp' = "wake"
    /\ UNCHANGED loadedSteps
    /\ OnlyPlay

\* the timer of `await delay(100)` fires
WakePause(l) ==
    /\ loops[l] = "pauseDelay"
    /\ LoopRun(l, currentStepIndex, isPlaying, isPaused)
    /\ lastOp' = "wake"
    /\ UNCHANGED loadedSteps
    /\ OnlyPlay

Pause ==
    /\ isPaused' = TRUE
    /\ notified' = <<>>
    /\ lastOp' = "pause"
    /\ UNCHANGED <<loadedSteps, currentStepIndex, isPlaying, loops>>
    /\ OnlyPlay

Resume ==
    /\ isPaused' = FALSE
    /\ notified' = <<>>
    /\ lastOp' = "resume"
    /\ UNCHANGED <<loadedSteps, currentStepIndex, isPlaying, loops>>
    /\ OnlyPlay

Stop ==
    /\ isPlaying' = FALSE
    /\ isPaused' = FALSE
    /\ notified' = <<>>
    /\ lastOp' = "stop"
    /\ UNCHANGED <<loadedSteps, currentStepIndex, loops>>
    /\ OnlyPlay

StepForward ==
    /\ IF CanStepForward(currentStepIndex, loadedSteps)
       THEN /\ currentStepIndex' = currentStepIndex + 1
            /\ notified' = <<Notification(loadedSteps, currentStepIndex + 1)>>
       ELSE /\ notified' = <<>>
            /\ UNCHANGED currentStepIndex
    /\ lastOp' = "stepForward"
    /\ UNCHANGED <<loadedSteps, isPlaying, isPaused, loops>>
    /\ OnlyPlay

StepBackward ==
    /\ IF currentStepIndex > 0
       THEN /\ currentStepIndex' = currentStepIndex - 1
            /\ notified' = <<Notification(loadedSteps, currentStepIndex - 1)>>
       ELSE /\ notified' = <<>>
            /\ UNCHANGED currentStepIndex
    /\ lastOp' = "stepBackward"
    /\ UNCHANGED <<loadedSteps, isPlaying, isPaused, loops>>
    /\ OnlyPlay

\* reset(): this.stop(), then the index and the notification
Reset ==
    /\ isPlaying' = FALSE
    /\ isPaused' = FALSE
    /\ currentStepIndex' = 0
    /\ notified' = <<Notification(loadedSteps, 0)>>
    /\ lastOp' = "reset"
    /\ UNCHANGED <<loadedSteps, loops>>
    /\ OnlyPlay

\* the controller driven directly: no button is involved
PlayNext ==
    \/ LoadSteps /\ UNCHANGED <<uiVars, runVars>>
    \/ Play /\ UNCHANGED <<uiVars, runVars>>
    \/ \E l \in 1..MaxLoops : WakeStep(l) /\ UNCHANGED <<uiVars, runVars>>
    \/ \E l \in 1..MaxLoops : WakePause(l) /\ UNCHANGED <<uiVars, runVars>>
    \/ Pause /\ UNCHANGED <<uiVars, runVars>>
    \/ Resume /\ UNCHANGED <<uiVars, runVars>>
    \/ Stop /\ UNCHANGED <<uiVars, runVars>>
    \/ StepForward /\ UNCHANGED <<uiVars, runVars>>
    \/ StepBackward /\ UNCHANGED <<uiVars, runVars>>
    \/ Reset /\ UNCHANGED <<uiVars, runVars>>

SpecPlay == PlayInit /\ [][PlayNext]_vars

\* ------------------------------------------------------------ claim C7
\* C7: with n >= 1 steps loaded and no playback loop running, stepForward
\* adds exactly 1 to the index below n-1 and changes nothing at n-1,
\* stepBackward subtracts exactly 1 above 0 and changes nothing at 0, and
\* reset leaves the first step current.
C7_ManualStepClamped ==
    [][(NoLoopRunning /\ Len(loadedSteps) >= 1) =>
         /\ lastOp' = "stepForward" =>
              /\ currentStepIndex < Len(loadedSteps) - 1 =>
                     currentStepIndex' = currentStepIndex + 1
              /\ currentStepIndex = Len(loadedSteps) - 1 =>
                     /\ currentStepIndex' = currentStepIndex
                     /\ notified' = <<>>
         /\ lastOp' = "stepBackward" =>
              /\ currentStepIndex > 0 =>
                     currentStepIndex' = currentStepIndex - 1
              /\ currentStepIndex = 0 =>
                     /\ currentStepIndex' = currentStepIndex
                     /\ notified' = <<>>
         /\ lastOp' = "reset" =>
              getCurrentStep(loadedSteps', currentStepIndex') =
                  loadedSteps[1]]_vars

\* [s0, s1, s2] is loaded, a stepForward has just been a no-op at s2
C7_Witness ==
    /\ NoLoopRunning
    /\ Len(loadedSteps) = 3
    /\ lastOp = "stepForward"
    /\ notified = <<>>
    /\ getCurrentStep(loadedSteps, currentStepIndex) = [name |-> 2]

\* ------------------------------------------------------------ claim C8
\* C8: a playback loop that wakes up after reset() leaves the index at 0.
C8_LoopInertAfterReset ==
    [][(lastOp = "reset" /\ lastOp' = "wake") => currentStepIndex' = 0]_vars

\* ------------------------------------------------------------ claim C9
\* C9: at most one playback loop is alive (started and not yet exited).
C9_AtMostOneLoop ==
    Cardinality({l \in DOMAIN loops : loops[l] # "idle"}) <= 1

\* ----------------------------------------------------------- claim C10
\* C10: while playback is paused (pause() called during playback, no
\* resume() since), a wake-up of the playback loop neither advances the
\* index nor raises a step notification.
C10_PausedLoopHolds ==
    [][(isPlaying /\ isPaused /\ lastOp' = "wake") =>
         /\ currentStepIndex' = currentStepIndex
         /\ notified' = <<>>]_vars

\* ----------------------------------------------------------- claim C11
\* C11: after every AnimationController call the pair (isPlaying, isPaused)
\* is stopped (F,F), playing (T,F) or paused (T,T), so isPaused is never
\* true while isPlaying is false, and a step that enters paused starts
\* from playing.
C11_FlagStates ==
    [][/\ ~(isPaused' /\ ~isPlaying')
       /\ (isPlaying' /\ isPaused' /\ ~(isPlaying /\ isPaused)) =>
              (isPlaying /\ ~isPaused)]_vars

\* ----------------------------------------------------------- claim C12
\* C12: a step in which the playback loop, stepForward, stepBackward or
\* reset changes the index raises exactly one notification, carrying the
\* new index, and a step that leaves the index unchanged raises none.
C12_NotifyOncePerChange ==
    [][/\ (/\ currentStepIndex' # currentStepIndex
           /\ lastOp' \in {"wake", "stepForward", "stepBackward", "reset"})
          => notified' = <<Notification(loadedSteps', currentStepIndex')>>
       /\ currentStepIndex' = currentStepIndex => notified' = <<>>]_vars

\* ----------------------------------------------------------- claim C13
\* the values getProgress can return: a number, NaN (0 / 0) or an infinity
NumberOf(v) == [kind |-> "number", value |-> v]

NaN == [kind |-> "NaN", value |-> 0]

Infinity(sign) == [kind |-> "Infinity", value |-> sign]

\* Math.round(x) for x = num / den with den > 0: halves round up
MathRound(num, den) == (2 * num + den) \div (2 * den)

\* Math.round((this.currentStepIndex / (this.steps.length - 1)) * 100)
getProgress(stepSeq, index) ==
    IF Len(stepSeq) = 0 THEN NumberOf(0)
    ELSE IF Len(stepSeq) - 1 = 0
         THEN IF index = 0 THEN NaN
              ELSE Infinity(IF index > 0 THEN 1 ELSE -1)
         ELSE NumberOf(MathRound(index * 100, Len(stepSeq) - 1))

\* C13: in every reachable state getProgress is a number in 0..100, it is 0
\* when the first step is current and 100 when the last step is current.
C13_ProgressInRange ==
    LET p == getProgress(loadedSteps, currentStepIndex)
    IN  /\ p.kind = "number"
        /\ p.value \in 0..100
        /\ (Len(loadedSteps) >= 1 /\ currentStepIndex = 0) => p.value = 0
        /\ (Len(loadedSteps) >= 1
              /\ currentStepIndex = Len(loadedSteps) - 1) => p.value = 100

\* ------------------------------------- all generators: state machine
\* initializeAlgorithm: the application runs the generators of one category
\* on the data of that category
GenInit == SortInit \/ GraphInit \/ PathInit \/ TreeInit

GenNext ==
    \/ (GraphIdle /\ PathIdle /\ TreeIdle /\ CallBubbleSort)
    \/ (GraphIdle /\ PathIdle /\ TreeIdle /\ CallInsertionSort)
    \/ (GraphIdle /\ PathIdle /\ TreeIdle /\ CallMergeSort)
    \/ (grid # NoGrid /\ CallBfs)
    \/ (grid # NoGrid /\ CallDfs)
    \/ (pgrid # NoPathGrid /\ CallDijkstra)
    \/ (pgrid # NoPathGrid /\ CallAStar)
    \/ (SortIdle /\ GraphIdle /\ PathIdle /\ CallPreorder)
    \/ (SortIdle /\ GraphIdle /\ PathIdle /\ CallInorder)
    \/ (SortIdle /\ GraphIdle /\ PathIdle /\ CallPostorder)

SpecGen == GenInit /\ [][GenNext]_vars

\* ----------------------------------------------------------- claim C14
\* the step sequences that generators have returned so far
ReturnedSequences ==
    {s \in {sortSteps, bfsSteps, dfsSteps, dijkstraSteps, aStarSteps,
            treeSteps} : s # <<>>}

\* exactly one `init` step, at index 0, and exactly one step with a type of
\* terminals, at the last index
Framed(s, terminals) ==
    /\ {k \in DOMAIN s : s[k].type = "init"} = {1}
    /\ {k \in DOMAIN s : s[k].type \in terminals} = {Len(s)}

\* C14 as claimed: every returned step sequence has exactly one `init`
\* step, at index 0, and exactly one terminal step, at the last index, of
\* type `complete` or `no-path`.
C14_InitAndTerminal ==
    \A s \in ReturnedSequences : Framed(s, {"complete", "no-path"})

\* C14 as amended: every returned step sequence has exactly one `init`
\* step, at index 0, and exactly one terminal step, at the last index, of
\* type `complete`, `no-path` or `path-found`.
C14_InitAndTerminalOrPathFound ==
    \A s \in ReturnedSequences :
        Framed(s, {"complete", "no-path", "path-found"})

\* aStar has returned a sequence that ends in `path-found` after a detour
C14_Witness ==
    /\ aStarSteps # <<>>
    /\ Last(aStarSteps).type = "path-found"
    /\ aStarSteps[1].type = "init"
    /\ Len(Last(aStarSteps).path) > 3

\* ----------------------------------------------------------- claim C15
\* the indices of the `pass` steps whose array snapshot, the working array
\* at the start of that pass, is already sorted
SortedPasses ==
    {k \in DOMAIN sortSteps :
        sortSteps[k].type = "pass" /\ IsSortedAsc(sortSteps[k].array)}

\* C15: bubbleSort emits `early-exit` exactly when some pass begins with the
\* working array already sorted; the `early-exit` step is then the step
\* immediately before `complete`, the pass it ends is that sorted pass, and
\* no `pass` step follows it.
C15_EarlyExitIffSortedPass ==
    sortAlg = "bubbleSort" =>
        LET exits == {k \in DOMAIN sortSteps :
                         sortSteps[k].type = "early-exit"}
            passes == {k \in DOMAIN sortSteps : sortSteps[k].type = "pass"}
        IN  /\ (exits # {}) <=> (SortedPasses # {})
            /\ exits # {} =>
                 /\ exits = {Len(sortSteps) - 1}
                 /\ Last(sortSteps).type = "complete"
                 /\ \A k \in passes : k < Len(sortSteps) - 1
                 /\ SortedPasses = {CHOOSE k \in passes :
                                       \A other \in passes : other <= k}

\* an unsorted input whose second pass finds the array sorted
C15_Witness ==
    /\ sortAlg = "bubbleSort"
    /\ arr = <<2, 1, 3>>
    /\ HasStepOfType(sortSteps, "swap")
    /\ sortSteps[Len(sortSteps) - 1].type = "early-exit"

\* ----------------------------------------------------------- claim C16
\* C16: when a path exists and both have run, the visited set of aStar's
\* `path-found` step has at most as many cells as the visited set of
\* dijkstra's `path-found` step.
C16_AStarVisitsNoMore ==
    (PathExists /\ dijkstraSteps # <<>> /\ aStarSteps # <<>>) =>
        /\ Last(aStarSteps).type = "path-found"
        /\ Last(dijkstraSteps).type = "path-found"
        /\ Cardinality(Last(aStarSteps).visited) <=
               Cardinality(Last(dijkstraSteps).visited)

\* both have found a path and aStar has visited strictly fewer cells
C16_Witness ==
    /\ PathExists
    /\ dijkstraSteps # <<>> /\ aStarSteps # <<>>
    /\ Last(aStarSteps).type = "path-found"
    /\ Cardinality(Last(aStarSteps).visited) <
           Cardinality(Last(dijkstraSteps).visited)

\* ----------------------------------------------------------- claim C17
\* the binary-search-tree ordering: no value in a left subtree is above the
\* value of its root, no value in a right subtree is below it
IsSearchTree ==
    \A n \in RealNodes :
        /\ \A x \in SubtreeOf(tree.nodes[n].left) :
               tree.nodes[x].value <= tree.nodes[n].value
        /\ \A y \in SubtreeOf(tree.nodes[n].right) :
               tree.nodes[n].value <= tree.nodes[y].value

\* the values of the `visit` steps, in emission order
VisitedValues ==
    [k \in DOMAIN VisitedNodes |-> nodeValue(tree, VisitedNodes[k])]

\* C17: on a tree with the binary-search-tree ordering, the values of the
\* `visit` steps of inorderTraversal are non-decreasing in emission order.
C17_InorderNonDecreasing ==
    (treeAlg = "inorder" /\ IsSearchTree) => IsSortedAsc(VisitedValues)

\* inorder has run on a search tree whose root has a smaller left and a
\* larger right child
C17_Witness ==
    /\ treeAlg = "inorder"
    /\ IsSearchTree
    /\ tree.root # Null
    /\ nodeLeft(tree, tree.root) # Null
    /\ nodeRight(tree, tree.root) # Null
    /\ nodeValue(tree, nodeLeft(tree, tree.root)) <
           nodeValue(tree, nodeRight(tree, tree.root))
    /\ Len(VisitedValues) >= 3

\* --------------------------- generators on any configuration: state machine
\* bfs, dfs, dijkstra and aStar are exported functions: a caller can pass
\* any dimensions and any positions, inside the grid or not
CfgDims == -1..MaxCfg

CfgPositions == {Pos(r, c) : r \in -1..MaxCfg, c \in -1..MaxCfg}

ConfigInit ==
    /\ \/ /\ \E rows \in CfgDims, cols \in CfgDims, s \in CfgPositions :
               grid = [rows |-> rows, cols |-> cols, start |-> s,
                       walls |-> {}]
          /\ pgrid = NoPathGrid
       \/ /\ \E rows \in CfgDims, cols \in CfgDims :
               \E s \in CfgPositions, e \in CfgPositions :
                  pgrid = [rows |-> rows, cols |-> cols, start |-> s,
                           end |-> e, walls |-> {}]
          /\ grid = NoGrid
    /\ bfsSteps = <<>> /\ dfsSteps = <<>>
    /\ dijkstraSteps = <<>> /\ aStarSteps = <<>>
    /\ SortIdle /\ PQIdle /\ TreeIdle /\ PlayIdle /\ UiIdle /\ RunIdle

ConfigNext ==
    \/ (PathIdle /\ CallBfs)
    \/ (PathIdle /\ CallDfs)
    \/ (GraphIdle /\ CallDijkstra)
    \/ (GraphIdle /\ CallAStar)

SpecConfig == ConfigInit /\ [][ConfigNext]_vars

\* ----------------------------------------------------------- claim C18
\* a configuration is valid when both dimensions are positive and every
\* given position lies inside the rows x cols grid
ValidConfig(rows, cols, positions) ==
    /\ rows > 0 /\ cols > 0
    /\ \A p \in positions : /\ p.row \in 0..(rows - 1)
                            /\ p.col \in 0..(cols - 1)

\* C18: a generator called with an invalid configuration (zero or negative
\* dimensions, a start or end outside the grid) produces no step sequence,
\* not even a partial one.
C18_InvalidConfigRejected ==
    /\ ~ValidConfig(grid.rows, grid.cols, {grid.start}) =>
           (bfsSteps = <<>> /\ dfsSteps = <<>>)
    /\ ~ValidConfig(pgrid.rows, pgrid.cols, {pgrid.start, pgrid.end}) =>
           (dijkstraSteps = <<>> /\ aStarSteps = <<>>)

\* ----------------------------------------------------------- claim C19
\* dfsHelper is invoked on the start cell and on neighbours it has just
\* found unvisited and open, so the only invocation on a visited cell or a
\* wall is the first one, on a start cell that is a wall.
\* C19: when dfs is called with a start cell that is a wall, its step
\* sequence holds a `null-node` step for that invocation.
C19_NullNodeForRejectedCall ==
    (dfsSteps # <<>> /\ Key(grid.start) \in grid.walls) =>
        HasStepOfType(dfsSteps, "null-node")

\* ------------------------------- AlgorithmPlayground: buttons and handlers
\* UIController.updateControlButtons({ isPlaying, isPaused, ... })
updateControlButtons(playing, paused) ==
    /\ btnPlayDisabled' = (playing /\ ~paused)
    /\ btnPauseDisabled' = (~playing \/ paused)
    /\ btnStepDisabled' = (playing /\ ~paused)

\* AlgorithmPlayground.updateControlButtonStates(), run at the end of a
\* handler or from handleStepChange: it reads the flags the controller
\* holds by then
updateControlButtonStates == updateControlButtons(isPlaying', isPaused')

\* after initializeApp(): a generated step sequence (init, ..., terminal) is
\* loaded, nothing plays, the buttons are refreshed
AppInit ==
    /\ \E n \in 2..MaxSteps : loadedSteps = [k \in 1..n |-> [name |-> k - 1]]
    /\ currentStepIndex = 0
    /\ isPlaying = FALSE
    /\ isPaused = FALSE
    /\ loops = [l \in 1..MaxLoops |-> "idle"]
    /\ notified = <<>>
    /\ lastOp = "loadSteps"
    /\ UiIdle /\ RunIdle
    /\ SortIdle /\ GraphIdle /\ PQIdle /\ PathIdle /\ TreeIdle

\* initializeAlgorithm(): animation.stop(), loadSteps(steps) with a freshly
\* generated sequence, updateControlButtonStates()
HandleAlgorithmChange ==
    /\ LoadSteps
    /\ Len(loadedSteps') >= 2
    /\ updateControlButtonStates

\* a click on Play: the call of play() runs to its first await (its first
\* notification refreshes the buttons) or returns at once (the handler
\* then refreshes them)
HandlePlay ==
    /\ ~btnPlayDisabled
    /\ IF isPaused THEN Resume ELSE Play
    /\ updateControlButtonStates

HandlePause ==
    /\ ~btnPauseDisabled
    /\ IF isPlaying /\ ~isPaused THEN Pause ELSE Resume
    /\ updateControlButtonStates

HandleStep ==
    /\ ~btnStepDisabled
    /\ StepForward
    /\ updateControlButtonStates

\* canReset is always true, the Reset button is never disabled
HandleReset ==
    /\ Reset
    /\ updateControlButtonStates

\* a wake-up of a play() call inside the application: a notification runs
\* handleStepChange, the return of play() resumes handlePlay, and both
\* refresh the buttons; a call that goes to the pause poll does neither
LoopRefresh(l) ==
    IF loops'[l] = "pauseDelay"
    THEN UNCHANGED uiVars
    ELSE updateControlButtonStates

AppWakeStep(l) == WakeStep(l) /\ LoopRefresh(l)

AppWakePause(l) == WakePause(l) /\ LoopRefresh(l)

AppNext ==
    \/ HandleAlgorithmChange /\ UNCHANGED runVars
    \/ HandlePlay /\ UNCHANGED runVars
    \/ HandlePause /\ UNCHANGED runVars
    \/ HandleStep /\ UNCHANGED runVars
    \/ HandleReset /\ UNCHANGED runVars
    \/ \E l \in 1..MaxLoops : AppWakeStep(l) /\ UNCHANGED runVars
    \/ \E l \in 1..MaxLoops : AppWakePause(l) /\ UNCHANGED runVars

SpecApp == AppInit /\ [][AppNext]_vars

\* ----------------------------------------------------------- claim C20
\* a play() call suspended in its step delay increments the index when it
\* wakes up, whatever the flags are by then
LoopWillAdvance == \E l \in DOMAIN loops : loops[l] = "stepDelay"

\* C20: in every state of the application in which a playback loop will
\* still advance the index and playback is not paused, the Step button is
\* disabled, so no click on Step can act between two steps of that loop.
C20_StepDisabledWhileLoopLive ==
    (LoopWillAdvance /\ ~isPaused) => btnStepDisabled

PassPositions == {p \in DOMAIN sortSteps : sortSteps[p].type = "pass"}

PassNumber(p) == Cardinality({q \in PassPositions : q <= p})

\* C22: in bubbleSort the sorted set of the `pass` step that opens pass k is
\* exactly the k-1 last indices, and every index in the sorted set of a
\* `pass`, `compare` or `swap` step already holds its final value.
C22_SortedSuffixGrows ==
    sortAlg = "bubbleSort" =>
        LET n == Len(arr)
            final == Last(sortSteps).array
        IN  /\ \A p \in PassPositions :
                 Range(sortSteps[p].sorted) =
                     (n - (PassNumber(p) - 1))..(n - 1)
            /\ \A p \in DOMAIN sortSteps :
                 sortSteps[p].type \in {"pass", "compare", "swap"} =>
                    \A idx \in Range(sortSteps[p].sorted) :
                       At(sortSteps[p].array, idx) = At(final, idx)

\* ----------------------------------------------------------- claim C23
\* the length of a shortest 4-directional walk over open cells from a cell
\* of `frontier` (at distance d) to target, -1 when there is none
RECURSIVE WalkDistance(_, _, _, _, _)
WalkDistance(open, seen, frontier, target, d) ==
    IF target \in frontier THEN d
    ELSE LET next == {c \in open \ seen :
                         \E f \in frontier : Adjacent(f, c)}
         IN  IF next = {} THEN -1
             ELSE WalkDistance(open, seen \cup next, next, target, d + 1)

ShortestDistance(rows, cols, from, to, walls) ==
    LET open == Cells(rows, cols) \ walls
    IN  IF from \notin open THEN -1
        ELSE WalkDistance(open, {from}, {from}, to, 0)

PathStepOk(steps) ==
    \A k \in DOMAIN steps :
        steps[k].type = "path-found" =>
            LET path == steps[k].path
                dist == steps[k].distance
            IN  /\ k = Len(steps)
                /\ Len(path) = dist + 1
                /\ path[1] = pgrid.start
                /\ path[Len(path)] = pgrid.end
                /\ \A q \in DOMAIN path :
                       /\ Key(path[q]) \in Cells(pgrid.rows, pgrid.cols)
                       /\ Key(path[q]) \notin pgrid.walls
                /\ \A q \in 1..(Len(path) - 1) :
                       Adjacent(Key(path[q]), Key(path[q + 1]))
                /\ dist = ShortestDistance(pgrid.rows, pgrid.cols,
                                           Key(pgrid.start), Key(pgrid.end),
                                           pgrid.walls)

C24_BfsDiscoverOnceVisitOnce ==
    LET discovers == {k \in DOMAIN bfsSteps : bfsSteps[k].type = "discover"}
        visits == {k \in DOMAIN bfsSteps : bfsSteps[k].type = "visit"}
    IN  /\ \A i \in discovers, j \in discovers :
               bfsSteps[i].neighbor = bfsSteps[j].neighbor => i = j
        /\ \A i \in visits, j \in visits :
               bfsSteps[i].current = bfsSteps[j].current => i = j
        /\ \A i \in discovers :
               \E j \in visits : /\ j > i
                                 /\ bfsSteps[j].current = bfsSteps[i].neighbor

\* bfs has run on a grid where a cell has two visited neighbours before it
\* is visited itself: a 2x2 grid without walls
C24_Witness ==
    /\ bfsSteps # <<>>
    /\ grid.rows = 2 /\ grid.cols = 2 /\ grid.walls = {}
    /\ Cardinality({k \in DOMAIN bfsSteps :
                       bfsSteps[k].type = "discover"}) = 3

\* ----------------------------------------------------------- claim C25
\* the cells of the `visit` steps of bfs, in emission order
BfsVisited ==
    [k \in DOMAIN StepsOfType(bfsSteps, "visit") |->
        Key(StepsOfType(bfsSteps, "visit")[k].current)]

StartDistance(cell) ==
    ShortestDistance(grid.rows, grid.cols, Key(grid.start), cell, grid.walls)

\* C25: when the start cell is not a wall, the `visit` steps of bfs come in
\* non-decreasing order of the cell's shortest distance from start.
C25_BfsLevelOrder ==
    (bfsSteps # <<>> /\ Key(grid.start) \notin grid.walls) =>
        \A k \in 1..(Len(BfsVisited) - 1) :
            /\ StartDistance(BfsVisited[k]) >= 0
            /\ StartDistance(BfsVisited[k]) <= StartDistance(BfsVisited[k + 1])

\* bfs has visited cells on at least four levels of a grid with a wall
C25_Witness ==
    /\ bfsSteps # <<>>
    /\ Key(grid.start) \notin grid.walls
    /\ grid.walls # {}
    /\ Len(BfsVisited) >= 5
    /\ StartDistance(Last(BfsVisited)) >= 3

\* ----------------------------------------------------------------- C26
DfsAt(i) == dfsSteps[i]

DfsOfType(t) == {i \in DOMAIN dfsSteps : DfsAt(i).type = t}

\* depth recorded in the visit step of cell p
DfsVisitDepth(p) ==
    LET i == CHOOSE i \in DfsOfType("visit") : DfsAt(i).current = p
    IN  DfsAt(i).depth

\* backtrack steps after discover step i that return from its neighbour to
\* its node
DfsMatches(i) ==
    {j \in DfsOfType("backtrack") :
        /\ j > i
        /\ DfsAt(j).current = DfsAt(i).neighbor
        /\ DfsAt(j).parent = DfsAt(i).current}

DfsMatch(i) == CHOOSE j \in DfsMatches(i) : TRUE

\* 1 up, 2 down, 3 left, 4 right; 0 when c is not next to p
DirRank(p, c) ==
    IF c.row = p.row - 1 /\ c.col = p.col THEN 1
    ELSE IF c.row = p.row + 1 /\ c.col = p.col THEN 2
    ELSE IF c.row = p.row /\ c.col = p.col - 1 THEN 3
    ELSE IF c.row = p.row /\ c.col = p.col + 1 THEN 4
    ELSE 0

\* C26: in the steps of dfs, every discover step for neighbour c from node
\* p is immediately followed by the visit step of c at depth one greater
\* than the depth of p's visit step; exactly one later backtrack step goes
\* from c to p; the discover/backtrack pairs are properly nested; and the
\* discover steps of one node come in the order up, down, left, right.
C26_DfsDiscoverBacktrackNested ==
    \A i \in DfsOfType("discover") :
        /\ i + 1 \in DfsOfType("visit")
        /\ DfsAt(i + 1).current = DfsAt(i).neighbor
        /\ DfsAt(i + 1).depth = DfsVisitDepth(DfsAt(i).current) + 1
        /\ Cardinality(DfsMatches(i)) = 1
        /\ \A i2 \in DfsOfType("discover") :
               (i < i2 /\ i2 < DfsMatch(i)) => DfsMatch(i2) < DfsMatch(i)
        /\ \A j2 \in DfsOfType("backtrack") :
               (i < j2 /\ j2 < DfsMatch(i)) =>
                   \E i2 \in DfsOfType("discover") :
                       i < i2 /\ i2 < j2 /\ j2 \in DfsMatches(i2)
        /\ DirRank(DfsAt(i).current, DfsAt(i).neighbor) >= 1
        /\ \A i2 \in DfsOfType("discover") :
               (i < i2 /\ DfsAt(i2).current = DfsAt(i).current) =>
                   DirRank(DfsAt(i).current, DfsAt(i).neighbor)
                       < DirRank(DfsAt(i2).current, DfsAt(i2).neighbor)

\* a depth-first search with walls where some node has two discovered
\* neighbours and some cell is visited at depth 3 or more
C26_Witness ==
    /\ grid.walls # {}
    /\ \E i \in DfsOfType("discover"), i2 \in DfsOfType("discover") :
           i < i2 /\ DfsAt(i).current = DfsAt(i2).current
    /\ \E i \in DfsOfType("visit") : DfsAt(i).depth >= 3

\* ----------------------------------------------------------------- C27
VisitPositions(steps) == {i \in DOMAIN steps : steps[i].type = "visit"}

UpdatePositions(steps) == {i \in DOMAIN steps : steps[i].type = "update"}

\* no cell is the current node of two visit steps
VisitedOnce(steps) ==
    \A i \in VisitPositions(steps), j \in VisitPositions(steps) :
        i < j => steps[i].current # steps[j].current

\* no update step targets a wall or a cell visited earlier
UpdateTargetsOpen(steps) ==
    \A i \in UpdatePositions(steps) :
        /\ Key(steps[i].neighbor) \notin pgrid.walls
        /\ \A j \in VisitPositions(steps) :
               j < i => steps[j].current # steps[i].neighbor

FromStart(cell) ==
    ShortestDistance(pgrid.rows, pgrid.cols, Key(pgrid.start), Key(cell),
                     pgrid.walls)

\* some cell is the target of two update steps, so the priority queue held
\* two entries for it
UpdatedTwice(steps) ==
    \E i \in UpdatePositions(steps), j \in UpdatePositions(steps) :
        i < j /\ steps[i].neighbor = steps[j].neighbor

\* C27: in the steps of dijkstra and of aStar, each cell is the current
\* node of at most one visit step, no update step targets a wall or an
\* already visited cell, and the distance (g) recorded in a cell's visit
\* step is the cell's shortest-path distance from start.
C27_VisitOnceAtShortestDistance ==
    /\ VisitedOnce(dijkstraSteps)
    /\ VisitedOnce(aStarSteps)
    /\ UpdateTargetsOpen(dijkstraSteps)
    /\ UpdateTargetsOpen(aStarSteps)
    /\ \A i \in VisitPositions(dijkstraSteps) :
           dijkstraSteps[i].distance = FromStart(dijkstraSteps[i].current)
    /\ \A i \in VisitPositions(aStarSteps) :
           aStarSteps[i].gScore = FromStart(aStarSteps[i].current)

\* aStar reached a cell twice, each time by a shorter way, on a grid with a
\* walled-in end; dijkstra ran on the same grid
C27_Witness ==
    /\ UpdatedTwice(aStarSteps)
    /\ Cardinality(VisitPositions(aStarSteps)) >= 5
    /\ HasStepOfType(dijkstraSteps, "no-path")
    /\ pgrid.walls # {}

\* ----------------------------------------------------------------- C28
\* the nodes from the root down to node i: the parent of the node with the
\* reference i has the reference i \div 2
RECURSIVE RootPath(_)
RootPath(i) == IF i = 1 THEN <<1>> ELSE Append(RootPath(i \div 2), i)

\* the frame labels the running traversal pushes for the nodes of a path
FrameLabels(path) ==
    [k \in DOMAIN path |-> <<treeAlg, nodeValue(tree, path[k])>>]

\* C28: in the steps of a preorder, inorder or postorder traversal, the
\* call-stack snapshot of a visit or recurse step is the frame labels of
\* the nodes on the path from the root to the step's node, so in a visit
\* step its length is depth + 1; the snapshot of a null-node step has as
\* many frames as its depth; the snapshot of a return step is the frame
\* labels of the path to the parent of the returning node, whose own frame
\* is gone; and the snapshot of the root's return step is empty.
C28_CallStackIsRootPath ==
    \A k \in DOMAIN treeSteps :
        LET s == treeSteps[k]
        IN  /\ s.type \in {"visit", "recurse"} =>
                   s.callStack = FrameLabels(RootPath(s.node))
            /\ s.type = "visit" => Len(s.callStack) = s.depth + 1
            /\ s.type = "null-node" => Len(s.callStack) = s.depth
            /\ s.type = "return" =>
                   /\ s.callStack = FrameLabels(Pop(RootPath(s.node)))
                   /\ Len(s.callStack) = Len(RootPath(s.node)) - 1
                   /\ s.node = tree.root => s.callStack = <<>>

\* a traversal of a tree of 4 nodes and 3 levels in which a node returned
\* while an ancestor with the same value was still on the stack
C28_Witness ==
    /\ treeAlg = "postorder"
    /\ Cardinality(RealNodes) = 4
    /\ \E k \in DOMAIN treeSteps :
           /\ treeSteps[k].type = "return"
           /\ Len(treeSteps[k].callStack) = 2
           /\ <<treeAlg, nodeValue(tree, treeSteps[k].node)>>
                  \in Range(treeSteps[k].callStack)

\* ----------------------------------------------------------------- C29
\* A single run: a new controller, one loadSteps, one play(), and then only
\* the wake-ups of the delay timers.  setTimeout fires every timer after a
\* finite delay (speedToDelay gives 10..1000 ms), hence the weak fairness
\* of the wake-up.
RunInputs ==
    UNION {[1..n -> [name : 1..MaxPayload]] : n \in 0..MaxRunSteps}

RunLoad ==
    /\ lastOp = "constructor"
    /\ \E stepSeq \in RunInputs : loadSteps(stepSeq)
    /\ raised' = <<>>
    /\ UNCHANGED uiVars

RunPlay ==
    /\ lastOp = "loadSteps"
    /\ Play
    /\ raised' = raised \o notified'
    /\ UNCHANGED uiVars

RunWake(l) ==
    /\ WakeStep(l)
    /\ raised' = raised \o notified'
    /\ UNCHANGED uiVars

RunNext ==
    \/ RunLoad
    \/ RunPlay
    \/ \E l \in 1..MaxLoops : RunWake(l)

SpecRun ==
    /\ PlayInit
    /\ [][RunNext]_vars
    /\ WF_vars(\E l \in 1..MaxLoops : RunWake(l))

\* the notifications of the indices 0 .. n-1, one each, in increasing order
ExpectedNotifications ==
    [k \in 1..Len(loadedSteps) |-> Notification(loadedSteps, k - 1)]

IsPrefix(a, b) == Len(a) <= Len(b) /\ a = SubSeq(b, 1, Len(a))

RunDone ==
    /\ ~isPlaying
    /\ NoLoopRunning
    /\ currentStepIndex = Len(loadedSteps) - 1
    /\ raised = ExpectedNotifications

\* C29: after loadSteps of n >= 1 steps and a single play() with no other
\* call, and the delay timers firing, playback eventually stops for good
\* with isPlaying false and the index n-1, the step notifications raised
\* being those of the indices 0, 1, .., n-1, each once and in this order;
\* at no time before has an index been notified twice or out of order.
C29_SingleRunPlaysEveryStepOnce ==
    /\ [](IsPrefix(raised, ExpectedNotifications))
    /\ (lastOp = "play" /\ Len(loadedSteps) >= 1) ~> [](RunDone)

\* the run of a sequence of 3 or more steps has ended
C29_Witness ==
    /\ Len(loadedSteps) >= 3
    /\ lastOp = "wake"
    /\ RunDone
    /\ \E k \in DOMAIN loadedSteps : loadedSteps[k] # loadedSteps[1]

\* ----------------------------------------------------------------- C30
\* max(0, steps.length - 1)
LastIndex == IF Len(loadedSteps) >= 1 THEN Len(loadedSteps) - 1 ELSE 0

\* C30: in every state between the calls on the controller and the
\* wake-ups of its loops, for every loaded sequence including the empty
\* one, the index is in 0 .. max(0, steps.length - 1), so getCurrentStep
\* returns null only when the sequence is empty.
C30_IndexInRange ==
    /\ currentStepIndex >= 0
    /\ currentStepIndex <= LastIndex
    /\ getCurrentStep(loadedSteps, currentStepIndex) = NullStep =>
           loadedSteps = <<>>

====
